---- MODULE Spec2Model ----
(***************************************************************************)
(* A model of openclaw/scripts/sync-credits.py: the commit categorizer,    *)
(* the maintainer aggregation (merge counting, push counting, threshold),  *)
(* the two-pass contributor identity resolution and the splicing of the    *)
(* two rendered sections into the credits document.                        *)
(*                                                                         *)
(* Python strings are sequences of one-character strings, so that strip,   *)
(* lower, startswith, split and the no-reply regular expression are        *)
(* computed character by character as the code computes them.              *)
(***************************************************************************)
EXTENDS Integers, Sequences, FiniteSets, TLC

VARIABLES
    pc,                     \* position of the running function
    files, category,        \* categorize_commit_files: argument and return value
    gh_output, merge_i,     \* get_maintainers: merged-PR lines and loop position
    merge_counts,           \* get_maintainers: dict login -> merges (insertion ordered)
    git_output, line_i,     \* get_maintainers: history lines and loop position
    push_counts,            \* get_maintainers: dict key -> tally by category
    current_key, current_files,
    maintainers,            \* get_maintainers: returned list
    log_output, pass_i,     \* get_contributors: author lines and loop position
    known_github_users, counts, canonical,
    contributors,           \* get_contributors: returned list
    earlier,                \* result of the preceding resolution run, if any
    content, lines, i, result, skip_until_next_section,
    maintainer_section, contributor_section

vars == <<pc, files, category, gh_output, merge_i, merge_counts, git_output, line_i,
          push_counts, current_key, current_files, maintainers, log_output, pass_i,
          known_github_users, counts, canonical, contributors, earlier, content,
          lines, i, result, skip_until_next_section, maintainer_section,
          contributor_section>>

(***************************************************************************)
(* Bounds of the model.                                                    *)
(***************************************************************************)
MaxFiles == 3

MaxMerged == 4

MaxHistory == 4

MaxLog == 3

MaxReorder == 3

MaxDoc == 4

(***************************************************************************)
(* Python str methods, on sequences of characters (ASCII).                 *)
(***************************************************************************)
LowerOf ==
    [A |-> "a", B |-> "b", C |-> "c", D |-> "d", E |-> "e", F |-> "f", G |-> "g",
     H |-> "h", I |-> "i", J |-> "j", K |-> "k", L |-> "l", M |-> "m", N |-> "n",
     O |-> "o", P |-> "p", Q |-> "q", R |-> "r", S |-> "s", T |-> "t", U |-> "u",
     V |-> "v", W |-> "w", X |-> "x", Y |-> "y", Z |-> "z"]

isupper(c) == c \in DOMAIN LowerOf

isdigit(c) == c \in {"0", "1", "2", "3", "4", "5", "6", "7", "8", "9"}

isspace(c) == c \in {" ", "\t"}

lower(s) == [k \in 1..Len(s) |-> IF isupper(s[k]) THEN LowerOf[s[k]] ELSE s[k]]

RECURSIVE lstrip(_)
lstrip(s) == IF s # <<>> /\ isspace(Head(s)) THEN lstrip(Tail(s)) ELSE s

RECURSIVE rstrip(_)
rstrip(s) ==
    IF s # <<>> /\ isspace(s[Len(s)]) THEN rstrip(SubSeq(s, 1, Len(s) - 1)) ELSE s

strip(s) == rstrip(lstrip(s))

startswith(s, prefix) ==
    Len(s) >= Len(prefix) /\ SubSeq(s, 1, Len(prefix)) = prefix

endswith(s, suffix) ==
    Len(s) >= Len(suffix) /\ SubSeq(s, Len(s) - Len(suffix) + 1, Len(s)) = suffix

(***************************************************************************)
(* Python str methods, continued; dicts; sorting.                          *)
(***************************************************************************)
None == <<>>   \* None and "" are both falsy, and no key or name is ""

Chars(s) == {s[k] : k \in DOMAIN s}

\* index of the first (last) occurrence of the character c in s, 0 if none
find(s, c) ==
    IF c \in Chars(s) THEN CHOOSE k \in DOMAIN s : s[k] = c /\ \A j \in 1..(k - 1) : s[j] # c
    ELSE 0

rfind(s, c) ==
    IF c \in Chars(s)
    THEN CHOOSE k \in DOMAIN s : s[k] = c /\ \A j \in (k + 1)..Len(s) : s[j] # c
    ELSE 0

RECURSIVE split(_, _, _)
split(s, sep, maxsplit) ==
    LET k == find(s, sep) IN
    IF maxsplit = 0 \/ k = 0 THEN <<s>>
    ELSE <<SubSeq(s, 1, k - 1)>> \o split(SubSeq(s, k + 1, Len(s)), sep, maxsplit - 1)

rsplit1(s, sep) ==
    LET k == rfind(s, sep) IN
    IF k = 0 THEN <<s>> ELSE <<SubSeq(s, 1, k - 1), SubSeq(s, k + 1, Len(s))>>

\* code points of the printable ASCII characters 32..95 and 97..126, and of the tab
AsciiLow == <<" ","!","\"","#","$","%","&","'","(",")","*","+",",","-",".","/","0","1","2","3","4","5","6","7","8","9",":",";","<","=",">","?","@","A","B","C","D","E","F","G","H","I","J","K","L","M","N","O","P","Q","R","S","T","U","V","W","X","Y","Z","[","\\","]","^","_">>

AsciiHigh == <<"a","b","c","d","e","f","g","h","i","j","k","l","m","n","o","p","q","r","s","t","u","v","w","x","y","z","{","|","}","~">>

ord == [c \in Chars(AsciiLow) \cup Chars(AsciiHigh) \cup {"\t"} |->
            IF c = "\t" THEN 9
            ELSE IF c \in Chars(AsciiLow)
                 THEN 31 + CHOOSE k \in DOMAIN AsciiLow : AsciiLow[k] = c
                 ELSE 96 + CHOOSE k \in DOMAIN AsciiHigh : AsciiHigh[k] = c]

\* s < t for Python strings: lexicographic by code point
RECURSIVE StrLess(_, _)
StrLess(s, t) ==
    IF t = <<>> THEN FALSE
    ELSE IF s = <<>> THEN TRUE
    ELSE IF Head(s) = Head(t) THEN StrLess(Tail(s), Tail(t))
    ELSE ord[Head(s)] < ord[Head(t)]

\* a sort key is <<integer, string>>
KeyLess(a, b) == a[1] < b[1] \/ (a[1] = b[1] /\ StrLess(a[2], b[2]))

\* list.sort(key=...): stable, ascending in the key; keyed[k] is <<key, item>>
RECURSIVE SortInsert(_, _)
SortInsert(sorted, x) ==
    IF sorted = <<>> THEN <<x>>
    ELSE IF KeyLess(x[1], Head(sorted)[1]) THEN <<x>> \o sorted
    ELSE <<Head(sorted)>> \o SortInsert(Tail(sorted), x)

RECURSIVE SortKeyed(_)
SortKeyed(keyed) ==
    IF keyed = <<>> THEN <<>>
    ELSE SortInsert(SortKeyed(SubSeq(keyed, 1, Len(keyed) - 1)), keyed[Len(keyed)])

sort(keyed) == LET s == SortKeyed(keyed) IN [k \in DOMAIN s |-> s[k][2]]

\* a dict is the sequence of its items [key, value] in insertion order
DictKeys(d) == {d[k].key : k \in DOMAIN d}

DictGet(d, key, default) ==
    IF key \in DictKeys(d) THEN d[CHOOSE k \in DOMAIN d : d[k].key = key].value
    ELSE default

DictSet(d, key, value) ==
    IF key \in DictKeys(d)
    THEN [k \in DOMAIN d |-> IF d[k].key = key THEN [key |-> key, value |-> value] ELSE d[k]]
    ELSE Append(d, [key |-> key, value |-> value])

(***************************************************************************)
(* Blocklists, threshold, extract_github_username, sanitize_name           *)
(***************************************************************************)
EXCLUDED_MAINTAINERS ==
    { <<"a","p","p","/","c","l","a","w","d","i","n","a","t","o","r">>, <<"c","l","a","w","d","i","n","a","t","o","r">>, <<"g","i","t","h","u","b","-","a","c","t","i","o","n","s">>, <<"d","e","p","e","n","d","a","b","o","t">> }

EXCLUDED_CONTRIBUTORS ==
    { <<"G","i","t","H","u","b">>, <<"g","i","t","h","u","b","-","a","c","t","i","o","n","s","[","b","o","t","]">>, <<"d","e","p","e","n","d","a","b","o","t","[","b","o","t","]">>, <<"c","l","a","w","d","i","n","a","t","o","r","[","b","o","t","]">>,
      <<"b","l","a","c","k","s","m","i","t","h","-","s","h","[","b","o","t","]">>, <<"g","o","o","g","l","e","-","l","a","b","s","-","j","u","l","e","s","[","b","o","t","]">>, <<"M","a","u","d","e"," ","B","o","t">>, <<"P","o","c","k","e","t"," ","C","l","a","w","d">>,
      <<"G","h","o","s","t">>, <<"G","r","e","g","o","r","'","s"," ","B","o","t">>, <<"J","a","r","v","i","s">>, <<"J","a","r","v","i","s"," ","D","e","p","l","o","y">>, <<"C","I">>, <<"U","b","u","n","t","u">>, <<"u","s","e","r">>,
      <<"D","e","v","e","l","o","p","e","r">>, <<"C","L","A","W","D","I","N","A","T","O","R"," ","B","o","t">>, <<"C","l","a","w","d">>, <<"C","l","a","w","d","b","o","t">>, <<"C","l","a","w","d","b","o","t"," ","M","a","i","n","t","a","i","n","e","r","s">>,
      <<"C","l","a","u","d","e"," ","C","o","d","e">>, <<"L","3","6"," ","S","e","r","v","e","r">>, <<"s","e","a","n","s","-","o","p","e","n","c","l","a","w","b","o","t">>, <<"t","h","e","r","e","a","l","Z","p","o","i","n","t","-","b","o","t">>,
      <<"V","u","l","t","r","-","C","l","a","w","d"," ","A","d","m","i","n">>, <<"h","y","f","0","-","a","g","e","n","t">> }

MIN_MERGES == 2

\* the literal tail of GITHUB_NOREPLY_RE, matched case-insensitively up to the end
NOREPLY_TAIL == <<"@","u","s","e","r","s",".","n","o","r","e","p","l","y",".","g","i","t","h","u","b",".","c","o","m">>

\* length of the leading run of digits: \d+
RECURSIVE DigitRun(_)
DigitRun(s) == IF s # <<>> /\ isdigit(Head(s)) THEN 1 + DigitRun(Tail(s)) ELSE 0

\* ^(?:\d+\+)?([^@]+)@users\.noreply\.github\.com$ with re.I; group(1).lower() or None.
\* The optional group is taken when something is left for ([^@]+), and given
\* back otherwise.  (No email reaching this function holds a line break.)
extract_github_username(email) ==
    LET n == Len(email) - Len(NOREPLY_TAIL)
        local == IF n >= 1 THEN SubSeq(email, 1, n) ELSE <<>>
        tail == IF n >= 1 THEN SubSeq(email, n + 1, Len(email)) ELSE <<>>
        d == DigitRun(local)
    IN  IF n >= 1 /\ lower(tail) = NOREPLY_TAIL /\ "@" \notin Chars(local)
        THEN IF d >= 1 /\ d + 1 < Len(local) /\ local[d + 1] = "+"
             THEN lower(SubSeq(local, d + 2, Len(local)))
             ELSE lower(local)
        ELSE None

replace(s, old) == SelectSeq(s, LAMBDA c : c # old)

sanitize_name(name) == strip(replace(replace(name, "{"), "}"))

(***************************************************************************)
(* categorize_commit_files                                                 *)
(***************************************************************************)
\* one iteration of the loop over files: flags is <<has_ci, has_docs, has_other>>
CategorizeFlagsWrongCase(flags, f) ==
    IF startswith(f, <<".","g","i","t","h","u","b","/">>) \/ startswith(f, <<"s","c","r","i","p","t","s","/","c","i">>)
    THEN <<TRUE, flags[2], flags[3]>>
    ELSE IF startswith(f, <<"d","o","c","s","/">>) \/ endswith(f, <<".","m","d">>)
         THEN <<flags[1], TRUE, flags[3]>>
         ELSE <<flags[1], flags[2], TRUE>>

CategorizeFlags(flags, f) ==
    LET f_lower == lower(f) IN
    IF startswith(f_lower, <<".","g","i","t","h","u","b","/">>) \/ startswith(f_lower, <<"s","c","r","i","p","t","s","/","c","i">>)
    THEN <<TRUE, flags[2], flags[3]>>
    ELSE IF startswith(f_lower, <<"d","o","c","s","/">>) \/ endswith(f_lower, <<".","m","d">>)
         THEN <<flags[1], TRUE, flags[3]>>
         ELSE <<flags[1], flags[2], TRUE>>

RECURSIVE CategorizeLoop(_, _)
CategorizeLoop(flags, fs) ==
    IF fs = <<>> THEN flags
    ELSE CategorizeLoop(CategorizeFlags(flags, Head(fs)), Tail(fs))

categorize_commit_files(fs) ==
    LET flags == CategorizeLoop(<<FALSE, FALSE, FALSE>>, fs)
        has_ci == flags[1]
        has_docs == flags[2]
        has_other == flags[3]
    IN  IF has_ci THEN "ci"
        ELSE IF has_other THEN (IF has_docs THEN "docs" ELSE "other")
        ELSE IF has_docs THEN "docs only"
        ELSE "other"

\* file paths a commit may touch
PathPool ==
    { <<".","g","i","t","h","u","b","/","w",".","y","m","l">>, <<".","G","i","t","H","u","b","/","W",".","y","m","l">>, <<"s","c","r","i","p","t","s","/","c","i",".","s","h">>, <<"s","c","r","i","p","t","s","/","x",".","s","h">>,
      <<"d","o","c","s","/","a",".","t","x","t">>, <<"R","E","A","D","M","E",".","M","D">>, <<"s","r","c","/","m",".","g","o">>, <<"x","/","d","o","c","s","/",".","m","d","x">> }

RECURSIVE SeqsUpTo(_, _)
SeqsUpTo(S, n) ==
    IF n = 0 THEN {<<>>}
    ELSE LET shorter == SeqsUpTo(S, n - 1)
         IN  shorter \cup {Append(s, x) : s \in {t \in shorter : Len(t) = n - 1}, x \in S}

(***************************************************************************)
(* Values of the variables a function does not use.                        *)
(***************************************************************************)
CategorizeIdle == files = <<>> /\ category = "none"

MaintainersIdle ==
    /\ gh_output = <<>> /\ merge_i = 0 /\ merge_counts = <<>>
    /\ git_output = <<>> /\ line_i = 0 /\ push_counts = <<>>
    /\ current_key = <<>> /\ current_files = <<>> /\ maintainers = <<>>

ContributorsIdle ==
    /\ log_output = <<>> /\ pass_i = 0 /\ known_github_users = {}
    /\ counts = <<>> /\ canonical = <<>> /\ contributors = <<>> /\ earlier = <<>>

CreditsIdle ==
    /\ content = <<>> /\ lines = <<>> /\ i = 0 /\ result = <<>>
    /\ skip_until_next_section = FALSE
    /\ maintainer_section = <<>> /\ contributor_section = <<>>

categorizeVars == <<files, category>>
maintainersVars == <<gh_output, merge_i, merge_counts, git_output, line_i, push_counts,
                     current_key, current_files, maintainers>>
contributorsVars == <<log_output, pass_i, known_github_users, counts, canonical,
                      contributors, earlier>>
creditsVars == <<content, lines, i, result, skip_until_next_section,
                 maintainer_section, contributor_section>>

(***************************************************************************)
(* The categorizer applied to every list of at most MaxFiles paths.        *)
(***************************************************************************)
InitCategorize ==
    /\ pc = "categorize"
    /\ files \in SeqsUpTo(PathPool, MaxFiles)
    /\ category = "none"
    /\ MaintainersIdle /\ ContributorsIdle /\ CreditsIdle

Categorize ==
    /\ pc = "categorize"
    /\ category' = categorize_commit_files(files)
    /\ pc' = "returned"
    /\ UNCHANGED <<files, maintainersVars, contributorsVars, creditsVars>>

NextCategorize == Categorize

SpecCategorize == InitCategorize /\ [][NextCategorize]_vars

\* the buckets as the description of the categorizer states them
IsCIPath(f) ==
    startswith(lower(f), <<".","g","i","t","h","u","b","/">>) \/ startswith(lower(f), <<"s","c","r","i","p","t","s","/","c","i">>)

IsDocsPath(f) == startswith(lower(f), <<"d","o","c","s","/">>) \/ endswith(lower(f), <<".","m","d">>)

Paths(fs) == {fs[k] : k \in DOMAIN fs}

\* C1: the result follows the fixed priority: any CI path gives "ci"; otherwise
\* any path that is neither CI nor docs gives "docs" when some path is a docs
\* path and "other" when none is; otherwise any docs path gives "docs only";
\* and the empty list gives "other".
C1_CategorizePriority ==
    pc = "returned" =>
        LET P == Paths(files) IN
        /\ (\E f \in P : IsCIPath(f)) => category = "ci"
        /\ (/\ \A f \in P : ~IsCIPath(f)
            /\ \E f \in P : ~IsDocsPath(f)) =>
                category = (IF \E f \in P : IsDocsPath(f) THEN "docs" ELSE "other")
        /\ (/\ \A f \in P : ~IsCIPath(f) /\ IsDocsPath(f)
            /\ P # {}) => category = "docs only"
        /\ files = <<>> => category = "other"

\* a commit mixing an upper-case CI path, a docs path and a code path was categorized
C1_Witness ==
    /\ pc = "returned"
    /\ category = "ci"
    /\ \E f \in Paths(files) : IsCIPath(f) /\ f # lower(f)
    /\ \E f \in Paths(files) : IsDocsPath(f)
    /\ \E f \in Paths(files) : ~IsCIPath(f) /\ ~IsDocsPath(f)

(***************************************************************************)
(* get_maintainers                                                         *)
(***************************************************************************)
Categories == {"ci", "docs only", "docs", "other"}

ZeroTally == [c \in Categories |-> 0]

TallySum(t) == t["ci"] + t["docs only"] + t["docs"] + t["other"]

\* body of the loop over the merged-PR lines
count_merge(mc, raw) ==
    LET login == strip(raw) IN
    IF login # <<>> /\ login \notin EXCLUDED_MAINTAINERS
    THEN DictSet(mc, login, DictGet(mc, login, 0) + 1)
    ELSE mc

\* flush_commit without the test that the commit has files
flush_commitCountsEmpty(st) ==
    [push_counts |->
        IF st.current_key # None
        THEN LET cat == categorize_commit_files(st.current_files)
                 tally == DictGet(st.push_counts, st.current_key, ZeroTally)
             IN  DictSet(st.push_counts, st.current_key, [tally EXCEPT ![cat] = @ + 1])
        ELSE st.push_counts,
     current_key |-> None,
     current_files |-> <<>>]

\* st is [push_counts, current_key, current_files], the variables flush_commit shares
flush_commit(st) ==
    [push_counts |->
        IF st.current_key # None /\ st.current_files # <<>>
        THEN LET cat == categorize_commit_files(st.current_files)
                 tally == DictGet(st.push_counts, st.current_key, ZeroTally)
             IN  DictSet(st.push_counts, st.current_key, [tally EXCEPT ![cat] = @ + 1])
        ELSE st.push_counts,
     current_key |-> None,
     current_files |-> <<>>]

\* scan_line rejecting a marker with too few fields before flushing
scan_lineNoFlush(st, raw) ==
    LET line == strip(raw) IN
    IF line = <<>> THEN st
    ELSE IF startswith(line, <<"C","O","M","M","I","T","|">>)
    THEN LET flushed == flush_commit(st)
             parts == split(line, "|", 2)
         IN  IF Len(parts) < 3 THEN st
             ELSE LET name == strip(parts[2])
                      email == lower(strip(parts[3]))
                      gh_user == extract_github_username(email)
                  IN  IF name = <<>> \/ name \in EXCLUDED_CONTRIBUTORS
                      THEN [flushed EXCEPT !.current_key = None]
                      ELSE [flushed EXCEPT
                                !.current_key = IF gh_user # None THEN gh_user
                                                ELSE lower(name)]
    ELSE IF st.current_key # None
         THEN [st EXCEPT !.current_files = Append(@, line)]
         ELSE st

\* body of the loop over the history lines
scan_line(st, raw) ==
    LET line == strip(raw) IN
    IF line = <<>> THEN st
    ELSE IF startswith(line, <<"C","O","M","M","I","T","|">>)
    THEN LET flushed == flush_commit(st)
             parts == split(line, "|", 2)
         IN  IF Len(parts) < 3 THEN flushed
             ELSE LET name == strip(parts[2])
                      email == lower(strip(parts[3]))
                      gh_user == extract_github_username(email)
                  IN  IF name = <<>> \/ name \in EXCLUDED_CONTRIBUTORS
                      THEN [flushed EXCEPT !.current_key = None]
                      ELSE [flushed EXCEPT
                                !.current_key = IF gh_user # None THEN gh_user
                                                ELSE lower(name)]
    ELSE IF st.current_key # None
         THEN [st EXCEPT !.current_files = Append(@, line)]
         ELSE st

\* build_maintainers with the threshold test merges > MIN_MERGES
build_maintainersStrict(mc, pcounts) ==
    LET qualifying == SelectSeq(mc, LAMBDA item : item.value > MIN_MERGES)
        Record(item) ==
            [login |-> item.key, merges |-> item.value,
             pushes |-> DictGet(pcounts, lower(item.key), ZeroTally)]
        SortKey(r) == <<-(r.merges + TallySum(r.pushes)), lower(r.login)>>
    IN  sort([k \in DOMAIN qualifying |->
                <<SortKey(Record(qualifying[k])), Record(qualifying[k])>>])

\* step 3: the list of (login, merges, pushes), then its sort
build_maintainers(mc, pcounts) ==
    LET qualifying == SelectSeq(mc, LAMBDA item : item.value >= MIN_MERGES)
        Record(item) ==
            [login |-> item.key, merges |-> item.value,
             pushes |-> DictGet(pcounts, lower(item.key), ZeroTally)]
        SortKey(r) == <<-(r.merges + TallySum(r.pushes)), lower(r.login)>>
    IN  sort([k \in DOMAIN qualifying |->
                <<SortKey(Record(qualifying[k])), Record(qualifying[k])>>])

\* lines of the merged-PR stream: one login per line
LoginPool == { <<"a","l","i","c","e">>, <<"A","l","i","c","e">>, <<" ","b","o","b"," ">>, <<"d","e","p","e","n","d","a","b","o","t">>, <<>> }

\* lines of the commit-history stream: markers and file paths
HistoryPool ==
    { <<"C","O","M","M","I","T","|","a","l","i","c","e","|","a","l","@","x",".","i","o">>,
      <<"C","O","M","M","I","T","|","B","o","b"," ","B","|","7","+","B","o","b","@","u","s","e","r","s",".","n","o","r","e","p","l","y",".","g","i","t","h","u","b",".","c","o","m">>,
      <<"C","O","M","M","I","T","|","C","I","|","c","i","@","x",".","i","o">>,
      <<"C","O","M","M","I","T","|","z","e","d">>,
      <<"C","O","M","M","I","T","|"," ","|","e","@","x",".","i","o">>,
      <<"d","o","c","s","/","a",".","m","d">>,
      <<" ","s","r","c","/","m",".","g","o"," ">>,
      <<>> }

\* a few histories and merged-PR streams, for the runs that vary the other input
HistorySamples ==
    { <<>>,
      << <<"C","O","M","M","I","T","|","a","l","i","c","e","|","a","l","@","x",".","i","o">>, <<"s","r","c","/","m",".","g","o">> >>,
      << <<"C","O","M","M","I","T","|","a","l","i","c","e","|","a","l","@","x",".","i","o">>, <<"d","o","c","s","/","a",".","m","d">>, <<"C","O","M","M","I","T","|","B","o","b"," ","B","|","7","+","B","o","b","@","u","s","e","r","s",".","n","o","r","e","p","l","y",".","g","i","t","h","u","b",".","c","o","m">>,
         <<".","g","i","t","h","u","b","/","w",".","y","m","l">>, <<"C","O","M","M","I","T","|","b","o","b","|","b","@","x",".","i","o">>, <<"s","r","c","/","m",".","g","o">>, <<"R","E","A","D","M","E",".","m","d">> >> }

MergedSamples == { << <<"a","l","i","c","e">>, <<"b","o","b">>, <<"a","l","i","c","e">> >> }

InitMaintainers(streams) ==
    /\ pc = "merges"
    /\ gh_output \in streams
    /\ merge_i = 1
    /\ merge_counts = <<>>
    /\ git_output = <<>> /\ line_i = 0 /\ push_counts = <<>>
    /\ current_key = None /\ current_files = <<>> /\ maintainers = <<>>
    /\ CategorizeIdle /\ ContributorsIdle /\ CreditsIdle

CountMerge ==
    /\ pc = "merges"
    /\ merge_i <= Len(gh_output)
    /\ merge_counts' = count_merge(merge_counts, gh_output[merge_i])
    /\ merge_i' = merge_i + 1
    /\ UNCHANGED <<pc, gh_output, git_output, line_i, push_counts, current_key,
                   current_files, maintainers, categorizeVars, contributorsVars,
                   creditsVars>>

\* the merged-PR lines are exhausted; run_git returns the history
RunGit(histories) ==
    /\ pc = "merges"
    /\ merge_i > Len(gh_output)
    /\ git_output' \in histories
    /\ line_i' = 1
    /\ push_counts' = <<>>
    /\ current_key' = None
    /\ current_files' = <<>>
    /\ pc' = "pushes"
    /\ UNCHANGED <<gh_output, merge_i, merge_counts, maintainers, categorizeVars,
                   contributorsVars, creditsVars>>

ScanState ==
    [push_counts |-> push_counts, current_key |-> current_key,
     current_files |-> current_files]

ScanLine ==
    /\ pc = "pushes"
    /\ line_i <= Len(git_output)
    /\ LET st == scan_line(ScanState, git_output[line_i]) IN
        /\ push_counts' = st.push_counts
        /\ current_key' = st.current_key
        /\ current_files' = st.current_files
    /\ line_i' = line_i + 1
    /\ UNCHANGED <<pc, gh_output, merge_i, merge_counts, git_output, maintainers,
                   categorizeVars, contributorsVars, creditsVars>>

\* "Flush last commit"
FlushLast ==
    /\ pc = "pushes"
    /\ line_i > Len(git_output)
    /\ LET st == flush_commit(ScanState) IN
        /\ push_counts' = st.push_counts
        /\ current_key' = st.current_key
        /\ current_files' = st.current_files
    /\ pc' = "build"
    /\ UNCHANGED <<gh_output, merge_i, merge_counts, git_output, line_i, maintainers,
                   categorizeVars, contributorsVars, creditsVars>>

BuildMaintainers ==
    /\ pc = "build"
    /\ maintainers' = build_maintainers(merge_counts, push_counts)
    /\ pc' = "returned"
    /\ UNCHANGED <<gh_output, merge_i, merge_counts, git_output, line_i, push_counts,
                   current_key, current_files, categorizeVars, contributorsVars,
                   creditsVars>>

\* every merged-PR stream, a few histories
NextMaintainers ==
    CountMerge \/ RunGit(HistorySamples) \/ ScanLine \/ FlushLast \/ BuildMaintainers

SpecMaintainers ==
    InitMaintainers(SeqsUpTo(LoginPool, MaxMerged)) /\ [][NextMaintainers]_vars

\* a few merged-PR streams, every history
NextPushes ==
    \/ CountMerge
    \/ RunGit(SeqsUpTo(HistoryPool, MaxHistory))
    \/ ScanLine
    \/ FlushLast
    \/ BuildMaintainers

SpecPushes == InitMaintainers(MergedSamples) /\ [][NextPushes]_vars

(***************************************************************************)
(* Properties of get_maintainers                                           *)
(***************************************************************************)
RECURSIVE SumSeq(_)
SumSeq(ns) == IF ns = <<>> THEN 0 ELSE Head(ns) + SumSeq(Tail(ns))

\* the usernames the merged-PR stream names, and the number of lines naming each
Usernames == {strip(gh_output[k]) : k \in DOMAIN gh_output} \ {<<>>}

MergeLines(u) == Cardinality({k \in DOMAIN gh_output : strip(gh_output[k]) = u})

RecordsOf(u) == {k \in DOMAIN maintainers : maintainers[k].login = u}

\* C5: a username has a MaintainerRecord if and only if it is not on the
\* maintainer blocklist and at least 2 lines of the merged-PR stream name it
\* (so exactly 1 merge never, exactly 2 always, whatever the pushes); the
\* record is the only one of that username, carries that number of merges, and
\* a zero tally when no push identity matches the username.
C5_MaintainerThreshold ==
    pc = "returned" =>
        /\ \A u \in Usernames :
            /\ RecordsOf(u) # {} <=> (u \notin EXCLUDED_MAINTAINERS /\ MergeLines(u) >= 2)
            /\ Cardinality(RecordsOf(u)) <= 1
            /\ \A k \in RecordsOf(u) :
                /\ maintainers[k].merges = MergeLines(u)
                /\ lower(u) \notin DictKeys(push_counts) => maintainers[k].pushes = ZeroTally
        /\ \A k \in DOMAIN maintainers : maintainers[k].login \in Usernames

\* one username with exactly 1 merge and tallied pushes is left out, another with
\* exactly 2 merges and no pushes is in, with the zero tally
C5_Witness ==
    /\ pc = "returned"
    /\ \E u \in Usernames :
        /\ MergeLines(u) = 1
        /\ lower(u) \in DictKeys(push_counts)
        /\ RecordsOf(u) = {}
    /\ \E u \in Usernames :
        /\ MergeLines(u) = 2
        /\ lower(u) \notin DictKeys(push_counts)
        /\ \E k \in RecordsOf(u) : maintainers[k].pushes = ZeroTally

\* C10: each push identity's tally is attached to at most one MaintainerRecord,
\* and the push counts of all emitted records sum to at most the number of
\* commits tallied in the push-counting pass.
C10_PushesNotDoubleCounted ==
    pc = "returned" =>
        /\ \A key \in DictKeys(push_counts) :
            Cardinality({k \in DOMAIN maintainers : lower(maintainers[k].login) = key}) <= 1
        /\ SumSeq([k \in DOMAIN maintainers |-> TallySum(maintainers[k].pushes)])
             <= SumSeq([k \in DOMAIN push_counts |-> TallySum(push_counts[k].value)])

\* the history stream as the push-counting pass reads it
HLine(k) == strip(git_output[k])

IsMarkerLine(k) == startswith(HLine(k), <<"C","O","M","M","I","T","|">>)

FieldCount(k) == 1 + Cardinality({j \in DOMAIN HLine(k) : HLine(k)[j] = "|"})

CommitterName(k) == strip(split(HLine(k), "|", 2)[2])

CommitterEmail(k) == lower(strip(split(HLine(k), "|", 2)[3]))

WellFormedMarker(k) ==
    /\ IsMarkerLine(k)
    /\ FieldCount(k) >= 3
    /\ CommitterName(k) # <<>>
    /\ CommitterName(k) \notin EXCLUDED_CONTRIBUTORS

SkippedMarker(k) == IsMarkerLine(k) /\ ~WellFormedMarker(k)

\* the simpler push identity: the username of the email, else the lower-cased name
PushIdentity(k) ==
    IF extract_github_username(CommitterEmail(k)) # None
    THEN extract_github_username(CommitterEmail(k))
    ELSE lower(CommitterName(k))

\* the first marker after line k (one past the end if none); the last one up to k
NextMarker(k) ==
    LET later == {j \in (k + 1)..Len(git_output) : IsMarkerLine(j)} IN
    IF later = {} THEN Len(git_output) + 1
    ELSE CHOOSE j \in later : \A h \in later : j <= h

LastMarker(k) ==
    LET before == {j \in 1..k : IsMarkerLine(j)} IN
    IF before = {} THEN 0 ELSE CHOOSE j \in before : \A h \in before : h <= j

\* the file-path lines among lines a+1 .. b
PathsBetween(a, b) ==
    SelectSeq([j \in 1..(b - a) |-> HLine(a + j)], LAMBDA line : line # <<>>)

OwnPaths(k) == PathsBetween(k, NextMarker(k) - 1)

\* push_counts holds, for every identity and category, the number of the
\* commits (marker lines) in S of that identity whose own paths have that category
TalliesCount(S) ==
    \A key \in DictKeys(push_counts) \cup {PushIdentity(k) : k \in S} :
        \A cat \in Categories :
            DictGet(push_counts, key, ZeroTally)[cat] =
                Cardinality({k \in S : /\ PushIdentity(k) = key
                                       /\ categorize_commit_files(OwnPaths(k)) = cat})

WellFormedCommits == {k \in DOMAIN git_output : WellFormedMarker(k)}

\* C6 as stated: every well-formed commit record, one without file-path lines
\* included (counted as "other"), increments exactly one category counter of
\* exactly one identity by one.
C6_EveryCommitCounted ==
    pc \in {"build", "returned"} => TalliesCount(WellFormedCommits)

\* C6 amended: every commit record whose marker has a committer name that is
\* non-empty after stripping and not blocklisted, and that has at least one
\* file-path line, increments exactly one category counter (the categorizer's
\* result for its paths) of exactly one identity by one; a commit without
\* file-path lines increments no counter.
C6_CommitsWithPathsCounted ==
    pc \in {"build", "returned"} =>
        TalliesCount({k \in WellFormedCommits : OwnPaths(k) # <<>>})

\* of two well-formed commits of one identity, the one with a path was tallied
\* and the one without file-path lines was passed over
C6_Witness ==
    /\ pc = "returned"
    /\ \E a, b \in WellFormedCommits :
        /\ PushIdentity(a) = PushIdentity(b)
        /\ OwnPaths(a) = <<>>
        /\ OwnPaths(b) # <<>>
        /\ TallySum(DictGet(push_counts, PushIdentity(a), ZeroTally)) = 1

\* C9: a skipped marker (fewer than three fields, a committer name empty after
\* stripping, or a blocklisted one) leaves the scan holding no commit: the
\* commits before it are tallied each with exactly its own paths, the path lines
\* after it are collected for no identity, and a later commit collects only its
\* own paths; the final tallies count the well-formed commits' own paths only.
C9_SkippedMarkerIsolated ==
    /\ pc = "pushes" =>
        LET k == line_i - 1
            m == LastMarker(k)
        IN  /\ (m > 0 /\ SkippedMarker(m)) =>
                /\ current_key = None
                /\ current_files = <<>>
                /\ TalliesCount({a \in 1..m : WellFormedMarker(a) /\ OwnPaths(a) # <<>>})
            /\ (m > 0 /\ WellFormedMarker(m) /\ \E a \in 1..m : SkippedMarker(a)) =>
                /\ current_key = PushIdentity(m)
                /\ current_files = PathsBetween(m, k)
    /\ (pc \in {"build", "returned"} /\ \E a \in DOMAIN git_output : SkippedMarker(a)) =>
        TalliesCount({a \in WellFormedCommits : OwnPaths(a) # <<>>})

\* a commit with a path, then a skipped marker followed by a path, were scanned
C9_Witness ==
    /\ pc = "pushes"
    /\ line_i = 5
    /\ WellFormedMarker(1) /\ ~IsMarkerLine(2) /\ HLine(2) # <<>>
    /\ SkippedMarker(3) /\ ~IsMarkerLine(4) /\ HLine(4) # <<>>
    /\ push_counts # <<>>
    /\ current_files = <<>>

(***************************************************************************)
(* get_contributors                                                        *)
(***************************************************************************)
\* body of the first loop: collect the usernames of the no-reply emails
first_pass(known, raw) ==
    LET line == strip(raw) IN
    IF line = <<>> \/ "|" \notin Chars(line) THEN known
    ELSE LET email == lower(strip(rsplit1(line, "|")[2]))
             gh_user == extract_github_username(email)
         IN  IF email = <<>> THEN known
             ELSE IF gh_user # None THEN known \cup {gh_user}
             ELSE known

\* replaces with "at least as long": a tie replaces the stored name
replacesOnTie(sanitized, stored) ==
    \/ isupper(sanitized[1]) /\ ~isupper(stored[1])
    \/ isupper(sanitized[1]) = isupper(stored[1]) /\ Len(sanitized) >= Len(stored)

\* "Prefer capitalized version, or longer name": whether sanitized replaces stored
replaces(sanitized, stored) ==
    \/ isupper(sanitized[1]) /\ ~isupper(stored[1])
    \/ isupper(sanitized[1]) = isupper(stored[1]) /\ Len(sanitized) > Len(stored)

\* the merge key of a counted record
merge_key(sanitized, email, known) ==
    LET gh_user == extract_github_username(email) IN
    IF gh_user # None THEN <<"g","h",":">> \o gh_user
    ELSE IF lower(sanitized) \in known THEN <<"g","h",":">> \o lower(sanitized)
    ELSE <<"n","a","m","e",":">> \o lower(sanitized)

\* second_pass without the test for an empty email
second_passNoEmailTest(st, known, raw) ==
    LET line == strip(raw) IN
    IF line = <<>> \/ "|" \notin Chars(line) THEN st
    ELSE LET parts == rsplit1(line, "|")
             name == strip(parts[1])
             email == lower(strip(parts[2]))
             sanitized == sanitize_name(name)
             key == merge_key(sanitized, email, known)
         IN  IF name = <<>> \/ name \in EXCLUDED_CONTRIBUTORS THEN st
             ELSE IF sanitized = <<>> THEN st
             ELSE [counts |-> DictSet(st.counts, key, DictGet(st.counts, key, 0) + 1),
                   canonical |->
                       IF key \notin DictKeys(st.canonical)
                          \/ replaces(sanitized, DictGet(st.canonical, key, <<>>))
                       THEN DictSet(st.canonical, key, sanitized)
                       ELSE st.canonical]

\* second_pass resolving a bare name against the keys counted so far instead of
\* the usernames of the whole history (streaming resolution)
second_passStreaming(st, known, raw) ==
    LET line == strip(raw) IN
    IF line = <<>> \/ "|" \notin Chars(line) THEN st
    ELSE LET parts == rsplit1(line, "|")
             name == strip(parts[1])
             email == lower(strip(parts[2]))
             sanitized == sanitize_name(name)
             seen == {SubSeq(k, 4, Len(k)) : k \in {h \in DictKeys(st.counts) : startswith(h, <<"g","h",":">>)}}
             key == merge_key(sanitized, email, seen)
         IN  IF name = <<>> \/ email = <<>> \/ name \in EXCLUDED_CONTRIBUTORS THEN st
             ELSE IF sanitized = <<>> THEN st
             ELSE [counts |-> DictSet(st.counts, key, DictGet(st.counts, key, 0) + 1),
                   canonical |->
                       IF key \notin DictKeys(st.canonical)
                          \/ replaces(sanitized, DictGet(st.canonical, key, <<>>))
                       THEN DictSet(st.canonical, key, sanitized)
                       ELSE st.canonical]

\* body of the second loop; st is [counts, canonical]
second_pass(st, known, raw) ==
    LET line == strip(raw) IN
    IF line = <<>> \/ "|" \notin Chars(line) THEN st
    ELSE LET parts == rsplit1(line, "|")
             name == strip(parts[1])
             email == lower(strip(parts[2]))
             sanitized == sanitize_name(name)
             key == merge_key(sanitized, email, known)
         IN  IF name = <<>> \/ email = <<>> \/ name \in EXCLUDED_CONTRIBUTORS THEN st
             ELSE IF sanitized = <<>> THEN st
             ELSE [counts |-> DictSet(st.counts, key, DictGet(st.counts, key, 0) + 1),
                   canonical |->
                       IF key \notin DictKeys(st.canonical)
                          \/ replaces(sanitized, DictGet(st.canonical, key, <<>>))
                       THEN DictSet(st.canonical, key, sanitized)
                       ELSE st.canonical]

\* the list of (name, count) in the order of counts, then its sort
build_contributors(cnts, canon) ==
    LET Record(item) == [name |-> DictGet(canon, item.key, <<>>), count |-> item.value]
        SortKey(r) == <<-r.count, lower(r.name)>>
    IN  sort([k \in DOMAIN cnts |-> <<SortKey(Record(cnts[k])), Record(cnts[k])>>])

\* lines of the author stream: <name>|<email>
LogPool ==
    { <<"A","l","i","c","e","|","1","+","a","l","i","c","e","@","u","s","e","r","s",".","n","o","r","e","p","l","y",".","g","i","t","h","u","b",".","c","o","m">>,
      <<"a","l","i","c","e","|","a","l","i","c","e","@","c","o",".","i","o">>,
      <<"A","L","I","C","E","|","a","@","x",".","i","o">>,
      <<"A","l","i","c","e"," ","L","i","|","A","l","i","c","e","@","U","s","e","r","s",".","N","o","R","e","p","l","y",".","G","i","t","H","u","b",".","c","o","m">>,
      <<"{","G","i","t","H","u","b","}","|","g","@","x",".","i","o">>,
      <<"G","i","t","H","u","b","|","7","+","b","o","t","@","u","s","e","r","s",".","n","o","r","e","p","l","y",".","g","i","t","h","u","b",".","c","o","m">>,
      <<"B","o","t","|","b","@","x",".","i","o">>,
      <<"b","o","b","|">>,
      <<"{"," ","}","|","e","@","x",".","i","o">>,
      <<"n","o","p","i","p","e">> }

ReorderPool ==
    { <<"A","l","i","c","e","|","1","+","a","l","i","c","e","@","u","s","e","r","s",".","n","o","r","e","p","l","y",".","g","i","t","h","u","b",".","c","o","m">>,
      <<"a","l","i","c","e","|","a","l","i","c","e","@","c","o",".","i","o">>,
      <<"A","L","I","C","E","|","a","@","x",".","i","o">>,
      <<"A","l","i","c","e"," ","L","i","|","A","l","i","c","e","@","U","s","e","r","s",".","N","o","R","e","p","l","y",".","G","i","t","H","u","b",".","c","o","m">>,
      <<"a","l","|","a","l","@","x",".","i","o">> }

InitContributors(logs) ==
    /\ pc = "pass1"
    /\ log_output \in logs
    /\ pass_i = 1
    /\ known_github_users = {}
    /\ counts = <<>> /\ canonical = <<>> /\ contributors = <<>> /\ earlier = <<>>
    /\ CategorizeIdle /\ MaintainersIdle /\ CreditsIdle

FirstPassLine ==
    /\ pc = "pass1"
    /\ pass_i <= Len(log_output)
    /\ known_github_users' = first_pass(known_github_users, log_output[pass_i])
    /\ pass_i' = pass_i + 1
    /\ UNCHANGED <<pc, log_output, counts, canonical, contributors, earlier,
                   categorizeVars, maintainersVars, creditsVars>>

BeginSecondPass ==
    /\ pc = "pass1"
    /\ pass_i > Len(log_output)
    /\ pc' = "pass2"
    /\ pass_i' = 1
    /\ counts' = <<>>
    /\ canonical' = <<>>
    /\ UNCHANGED <<log_output, known_github_users, contributors, earlier,
                   categorizeVars, maintainersVars, creditsVars>>

SecondPassLine ==
    /\ pc = "pass2"
    /\ pass_i <= Len(log_output)
    /\ LET st == second_pass([counts |-> counts, canonical |-> canonical],
                             known_github_users, log_output[pass_i])
       IN  counts' = st.counts /\ canonical' = st.canonical
    /\ pass_i' = pass_i + 1
    /\ UNCHANGED <<pc, log_output, known_github_users, contributors, earlier,
                   categorizeVars, maintainersVars, creditsVars>>

ReturnContributors ==
    /\ pc = "pass2"
    /\ pass_i > Len(log_output)
    /\ contributors' = build_contributors(counts, canonical)
    /\ pc' = "returned"
    /\ UNCHANGED <<log_output, pass_i, known_github_users, counts, canonical, earlier,
                   categorizeVars, maintainersVars, creditsVars>>

\* the same records in another order
Reorderings(records) ==
    {[k \in DOMAIN records |-> records[f[k]]] : f \in Permutations(DOMAIN records)}

\* get_contributors is run again on a reordering of the history, the result of
\* the run before kept for comparison
Rerun ==
    /\ pc = "returned"
    /\ earlier = <<>>
    /\ earlier' = <<[counts |-> counts, canonical |-> canonical]>>
    /\ log_output' \in Reorderings(log_output)
    /\ pc' = "pass1"
    /\ pass_i' = 1
    /\ known_github_users' = {}
    /\ counts' = <<>> /\ canonical' = <<>> /\ contributors' = <<>>
    /\ UNCHANGED <<categorizeVars, maintainersVars, creditsVars>>

NextContributors ==
    FirstPassLine \/ BeginSecondPass \/ SecondPassLine \/ ReturnContributors

SpecContributors ==
    InitContributors(SeqsUpTo(LogPool, MaxLog)) /\ [][NextContributors]_vars

NextReorder ==
    FirstPassLine \/ BeginSecondPass \/ SecondPassLine \/ ReturnContributors \/ Rerun

SpecReorder ==
    InitContributors(SeqsUpTo(ReorderPool, MaxReorder)) /\ [][NextReorder]_vars

(***************************************************************************)
(* Properties of get_contributors                                          *)
(***************************************************************************)
\* the author stream as records <name>|<email>, split at the last "|"
LLine(k) == strip(log_output[k])

IsRecord(k) == "|" \in Chars(LLine(k))

AuthorName(k) == strip(SubSeq(LLine(k), 1, rfind(LLine(k), "|") - 1))

AuthorEmail(k) == strip(SubSeq(LLine(k), rfind(LLine(k), "|") + 1, Len(LLine(k))))

Sanitized(k) == sanitize_name(AuthorName(k))

Records == {k \in DOMAIN log_output : IsRecord(k)}

\* the usernames the emails of the whole history yield
KnownUsernames ==
    {extract_github_username(AuthorEmail(k)) : k \in Records} \ {None}

\* the key rule: gh:<username>, else gh:<name> for a known username, else name:<name>
IdentityKey(k) ==
    IF extract_github_username(AuthorEmail(k)) # None
    THEN <<"g","h",":">> \o extract_github_username(AuthorEmail(k))
    ELSE IF lower(Sanitized(k)) \in KnownUsernames THEN <<"g","h",":">> \o lower(Sanitized(k))
    ELSE <<"n","a","m","e",":">> \o lower(Sanitized(k))

\* records with a name that is not blocklisted and not empty after sanitization
NamedRecords ==
    {k \in Records : Sanitized(k) # <<>> /\ AuthorName(k) \notin EXCLUDED_CONTRIBUTORS}

\* counts holds, for every key, the number of the records in S with that key
CountsAre(S) ==
    /\ \A key \in DictKeys(counts) \cup {IdentityKey(k) : k \in S} :
        DictGet(counts, key, 0) = Cardinality({k \in S : IdentityKey(k) = key})
    /\ SumSeq([k \in DOMAIN counts |-> counts[k].value]) = Cardinality(S)

\* C2 as stated: every record with a non-blocklisted name that is non-empty after
\* sanitization increments exactly one key's commitCount by one, whatever its
\* email (an empty one included); the counts sum to the number of such records.
C2_EveryNamedRecordCounted ==
    pc = "returned" => CountsAre(NamedRecords)

\* C2 amended: every record whose name (as written, stripped) is not on the
\* blocklist and is non-empty after sanitization, and whose email is not empty,
\* increments exactly one key's commitCount by one, the key given by the key
\* rule; a record with an empty email gets no key and no count; the counts sum
\* to the number of the records with a non-empty email.
C2_RecordsWithEmailCounted ==
    pc = "returned" => CountsAre({k \in NamedRecords : AuthorEmail(k) # <<>>})

\* a record with an empty email was passed over next to records that were
\* counted under a gh: key, one of them by its name alone
C2_Witness ==
    /\ pc = "returned"
    /\ \E k \in NamedRecords : AuthorEmail(k) = <<>>
    /\ \E a, b \in NamedRecords :
        /\ extract_github_username(AuthorEmail(a)) # None
        /\ AuthorEmail(b) # <<>>
        /\ extract_github_username(AuthorEmail(b)) = None
        /\ IdentityKey(a) = IdentityKey(b)
        /\ DictGet(counts, IdentityKey(a), 0) = 2

\* C3: no returned entry has a display name on the contributor blocklist, and
\* a record whose sanitized name is on the blocklist adds to no key's count.
C3_BlocklistedNeverCounted ==
    pc = "returned" =>
        /\ \A k \in DOMAIN contributors : contributors[k].name \notin EXCLUDED_CONTRIBUTORS
        /\ \A key \in DictKeys(counts) :
            DictGet(counts, key, 0) <=
                Cardinality({k \in Records : /\ IdentityKey(k) = key
                                             /\ Sanitized(k) \notin EXCLUDED_CONTRIBUTORS})

\* the order of preference among the name variants of a key
Preferred(a, b) ==
    \/ isupper(a[1]) /\ ~isupper(b[1])
    \/ (isupper(a[1]) <=> isupper(b[1])) /\ Len(a) > Len(b)

CountedRecords == {k \in NamedRecords : AuthorEmail(k) # <<>>}

\* the records among the first n lines that were counted under key
VariantsOf(key, n) == {k \in CountedRecords : k <= n /\ IdentityKey(k) = key}

\* C4: two runs on two orderings of the same records give the same keys and the
\* same commitCount per key; the display name of a key may differ only between
\* variants of that key that tie (same case-ness of the first character, same
\* length).
C4_OrderIndependent ==
    (pc = "returned" /\ earlier # <<>>) =>
        LET before == earlier[1] IN
        /\ DictKeys(counts) = DictKeys(before.counts)
        /\ DictKeys(canonical) = DictKeys(before.canonical)
        /\ \A key \in DictKeys(counts) :
            DictGet(counts, key, 0) = DictGet(before.counts, key, 0)
        /\ \A key \in DictKeys(canonical) :
            LET a == DictGet(canonical, key, <<>>)
                b == DictGet(before.canonical, key, <<>>)
                names == {Sanitized(k) : k \in VariantsOf(key, Len(log_output))}
            IN  /\ a \in names /\ b \in names
                /\ a # b => /\ (isupper(a[1]) <=> isupper(b[1]))
                            /\ Len(a) = Len(b)

\* the second run merged a bare name into a gh: key and chose another of two
\* tying display names than the first run
C4_Witness ==
    /\ pc = "returned"
    /\ earlier # <<>>
    /\ \E key \in DictKeys(canonical) :
        /\ DictGet(canonical, key, <<>>) # DictGet(earlier[1].canonical, key, <<>>)
        /\ DictGet(counts, key, 0) = 3
        /\ \E k \in VariantsOf(key, Len(log_output)) :
            extract_github_username(AuthorEmail(k)) = None

\* C8: during and after pass 2 the display name stored for a key is the name of
\* one of the records counted under it so far, no such record's name is
\* preferred to it, and every record before its first occurrence is strictly
\* less preferred (it is the first of the most preferred variants).
C8_CanonicalNameIsFirstMaximum ==
    pc \in {"pass2", "returned"} =>
        LET n == pass_i - 1 IN
        /\ DictKeys(canonical) = {IdentityKey(k) : k \in {h \in CountedRecords : h <= n}}
        /\ \A key \in DictKeys(canonical) :
            LET stored == DictGet(canonical, key, <<>>)
                V == VariantsOf(key, n)
            IN  /\ \A h \in V : ~Preferred(Sanitized(h), stored)
                /\ \E j \in V :
                    /\ Sanitized(j) = stored
                    /\ \A h \in V : h < j => Preferred(stored, Sanitized(h))

\* a key has a less preferred variant first, then two different names that tie
\* for the most preferred, and the first of the two is stored
C8_Witness ==
    /\ pc = "returned"
    /\ \E key \in DictKeys(canonical) :
        \E a, b, c \in VariantsOf(key, Len(log_output)) :
            /\ a < b /\ b < c
            /\ Preferred(Sanitized(b), Sanitized(a))
            /\ Sanitized(b) # Sanitized(c)
            /\ ~Preferred(Sanitized(b), Sanitized(c))
            /\ ~Preferred(Sanitized(c), Sanitized(b))
            /\ DictGet(canonical, key, <<>>) = Sanitized(b)

(***************************************************************************)
(* update_credits                                                          *)
(***************************************************************************)
RECURSIVE join(_, _)
join(sep, list) ==
    IF list = <<>> THEN <<>>
    ELSE IF Len(list) = 1 THEN list[1]
    ELSE list[1] \o sep \o join(sep, Tail(list))

Digits == <<"0","1","2","3","4","5","6","7","8","9">>

\* str(n) for n >= 0
RECURSIVE str(_)
str(n) == IF n < 10 THEN <<Digits[n + 1]>> ELSE str(n \div 10) \o <<Digits[(n % 10) + 1]>>

\* the line of one maintainer
maintainer_line(m) ==
    LET total_pushes == TallySum(m.pushes)
        Part(cat, label) ==
            IF m.pushes[cat] > 0 THEN << str(m.pushes[cat]) \o <<" ">> \o label >> ELSE <<>>
        push_parts == Part("ci", <<"c","i">>) \o Part("docs only", <<"d","o","c","s"," ","o","n","l","y">>)
                        \o Part("docs", <<"d","o","c","s">>) \o Part("other", <<"o","t","h","e","r">>)
        link == <<"-"," ","[","@">> \o m.login \o <<"]","(","h","t","t","p","s",":","/","/","g","i","t","h","u","b",".","c","o","m","/">> \o m.login \o <<")"," ","(">>
                  \o str(m.merges) \o <<" ","m","e","r","g","e","s">>
    IN  IF total_pushes > 0
        THEN link \o <<","," ">> \o str(total_pushes) \o <<" ","d","i","r","e","c","t"," ","c","h","a","n","g","e","s",":"," ">>
                  \o join(<<","," ">>, push_parts) \o <<")">>
        ELSE link \o <<")">>

render_maintainers(ms) ==
    IF ms = <<>> THEN <<"_","N","o"," ","m","a","i","n","t","a","i","n","e","r","s"," ","d","e","t","e","c","t","e","d",".","_">>
    ELSE join(<<"\n">>, [k \in DOMAIN ms |-> maintainer_line(ms[k])])

render_contributors(cs, timestamp) ==
    LET contributor_lines ==
            [k \in DOMAIN cs |-> sanitize_name(cs[k].name) \o <<" ","(">> \o str(cs[k].count) \o <<")">>]
        section == IF cs = <<>> THEN <<"_","N","o"," ","c","o","n","t","r","i","b","u","t","o","r","s"," ","d","e","t","e","c","t","e","d",".","_">>
                   ELSE join(<<","," ">>, contributor_lines)
    IN  str(Len(cs)) \o <<" ","c","o","n","t","r","i","b","u","t","o","r","s",":"," ">> \o section \o <<"\n","\n","_","L","a","s","t"," ","u","p","d","a","t","e","d",":"," ">>
            \o timestamp \o <<"_">>

\* splice_line with the line that ends a section left out
splice_lineDropsEnd(st, line, msec, csec) ==
    IF line = <<"#","#"," ","M","a","i","n","t","a","i","n","e","r","s">>
    THEN [result |-> st.result \o <<line, <<>>, msec>>, skip |-> TRUE]
    ELSE IF line = <<"#","#"," ","C","o","n","t","r","i","b","u","t","o","r","s">>
    THEN [result |-> st.result \o << <<>>, line, <<>>, csec>>, skip |-> TRUE]
    ELSE IF st.skip /\ (startswith(line, <<"#","#"," ">>) \/ startswith(line, <<">"," ">>))
         THEN [result |-> Append(st.result, <<>>), skip |-> FALSE]
         ELSE [result |-> IF st.skip THEN st.result ELSE Append(st.result, line),
               skip |-> st.skip]

\* body of the while loop; st is [result, skip]
splice_line(st, line, msec, csec) ==
    IF line = <<"#","#"," ","M","a","i","n","t","a","i","n","e","r","s">>
    THEN [result |-> st.result \o <<line, <<>>, msec>>, skip |-> TRUE]
    ELSE IF line = <<"#","#"," ","C","o","n","t","r","i","b","u","t","o","r","s">>
    THEN [result |-> st.result \o << <<>>, line, <<>>, csec>>, skip |-> TRUE]
    ELSE LET next_section ==
                 st.skip /\ (startswith(line, <<"#","#"," ">>) \/ startswith(line, <<">"," ">>))
             skip == IF next_section THEN FALSE ELSE st.skip
             blank == IF next_section THEN << <<>> >> ELSE <<>>
         IN  [result |-> IF skip THEN st.result \o blank
                         ELSE st.result \o blank \o <<line>>,
              skip |-> skip]

\* lines of the credits document
DocLinePool ==
    { <<"#","#"," ","M","a","i","n","t","a","i","n","e","r","s">>, <<"#","#"," ","C","o","n","t","r","i","b","u","t","o","r","s">>, <<"#","#"," ","T","h","a","n","k","s">>, <<">"," ","n","o","t","e">>, <<"t","e","x","t">>, <<>> }

Documents == {join(<<"\n">>, ls) : ls \in SeqsUpTo(DocLinePool, MaxDoc) \ {<<>>}}

\* the two lists update_credits is called with, and the time of the call
CreditsSamples ==
    { [maintainers |-> <<>>, contributors |-> <<>>],
      [maintainers |->
           << [login |-> <<"b","o","b">>, merges |-> 3,
               pushes |-> [c \in Categories |->
                              IF c = "ci" THEN 1 ELSE IF c = "other" THEN 12 ELSE 0]],
              [login |-> <<"A","l","i","c","e">>, merges |-> 2, pushes |-> ZeroTally] >>,
       contributors |-> << [name |-> <<"A","l","i","c","e"," ","{","L","i","}">>, count |-> 12],
                           [name |-> <<"b","o","b">>, count |-> 1] >>] }

\* datetime.now(timezone.utc).strftime("%Y-%m-%d %H:%M UTC")
Timestamps == { <<"2","0","2","6","-","1","1","-","0","6"," ","0","2",":","4","7"," ","U","T","C">> }

InitCredits ==
    /\ pc = "render"
    /\ content \in Documents
    /\ \E sample \in CreditsSamples :
        /\ maintainers = sample.maintainers
        /\ contributors = sample.contributors
    /\ maintainer_section = <<>> /\ contributor_section = <<>>
    /\ lines = <<>> /\ i = 0 /\ result = <<>> /\ skip_until_next_section = FALSE
    /\ gh_output = <<>> /\ merge_i = 0 /\ merge_counts = <<>>
    /\ git_output = <<>> /\ line_i = 0 /\ push_counts = <<>>
    /\ current_key = <<>> /\ current_files = <<>>
    /\ log_output = <<>> /\ pass_i = 0 /\ known_github_users = {}
    /\ counts = <<>> /\ canonical = <<>> /\ earlier = <<>>
    /\ CategorizeIdle

creditsFrame ==
    <<categorizeVars, maintainersVars, log_output, pass_i, known_github_users, counts,
      canonical, contributors, earlier>>

\* the sections are rendered and the document is split into lines
RenderSections ==
    /\ pc = "render"
    /\ maintainer_section' = render_maintainers(maintainers)
    /\ \E timestamp \in Timestamps :
        contributor_section' = render_contributors(contributors, timestamp)
    /\ lines' = split(content, "\n", Len(content))
    /\ result' = <<>>
    /\ skip_until_next_section' = FALSE
    /\ i' = 1
    /\ pc' = "splice"
    /\ UNCHANGED <<content, creditsFrame>>

SpliceLine ==
    /\ pc = "splice"
    /\ i <= Len(lines)
    /\ LET st == splice_line([result |-> result, skip |-> skip_until_next_section],
                             lines[i], maintainer_section, contributor_section)
       IN  result' = st.result /\ skip_until_next_section' = st.skip
    /\ i' = i + 1
    /\ UNCHANGED <<pc, content, lines, maintainer_section, contributor_section,
                   creditsFrame>>

WriteCredits ==
    /\ pc = "splice"
    /\ i > Len(lines)
    /\ content' = join(<<"\n">>, result)
    /\ pc' = "returned"
    /\ UNCHANGED <<lines, i, result, skip_until_next_section, maintainer_section,
                   contributor_section, creditsFrame>>

NextCredits == RenderSections \/ SpliceLine \/ WriteCredits

SpecCredits == InitCredits /\ [][NextCredits]_vars

(***************************************************************************)
(* Properties of update_credits                                            *)
(***************************************************************************)
Recognized(j) == lines[j] \in { <<"#","#"," ","M","a","i","n","t","a","i","n","e","r","s">>, <<"#","#"," ","C","o","n","t","r","i","b","u","t","o","r","s">> }

EndsSection(j) == startswith(lines[j], <<"#","#"," ">>) \/ startswith(lines[j], <<">"," ">>)

\* the last recognized heading before line j, 0 if none
LastHeading(j) ==
    LET before == {h \in 1..(j - 1) : Recognized(h)} IN
    IF before = {} THEN 0 ELSE CHOOSE h \in before : \A g \in before : g <= h

\* line j lies outside the replaced sections: before the first recognized
\* heading, or from the line that ends a replaced section on
Outside(j) ==
    /\ ~Recognized(j)
    /\ \/ LastHeading(j) = 0
       \/ \E e \in (LastHeading(j) + 1)..j : EndsSection(e)

\* C7: splicing leaves the lines outside the replaced sections as they are and
\* in their order: each such line is appended to the output unaltered when the
\* loop reaches it, directly after its predecessor when that one is outside a
\* replaced section too, and nothing that was output before is changed; a
\* document with neither heading is written back identical.
C7_OutsideSectionsUnchanged ==
    [][/\ (pc = "splice" /\ i <= Len(lines)) =>
            /\ SubSeq(result', 1, Len(result)) = result
            /\ Outside(i) =>
                /\ Len(result') > Len(result)
                /\ result'[Len(result')] = lines[i]
                /\ (i > 1 /\ Outside(i - 1)) => result' = Append(result, lines[i])
                /\ (i = 1 \/ LastHeading(i) = 0) => result' = SubSeq(lines, 1, i)
       /\ (pc = "splice" /\ i > Len(lines) /\ \A j \in DOMAIN lines : ~Recognized(j)) =>
            content' = content
      ]_vars

\* a document with a line before the maintainer heading, old section content
\* and a line that ends the section was spliced and written
C7_Witness ==
    /\ pc = "returned"
    /\ Len(lines) >= 4
    /\ Outside(1) /\ Recognized(2) /\ ~Recognized(3) /\ ~Outside(3) /\ Outside(4)
    /\ Len(maintainers) = 2
    /\ content # join( <<"\n">>, lines)

====
